---- MODULE Spec2Model ----
(***************************************************************************)
(* A model of geoxarray's `.geo` accessor (src/geoxarray/accessor.py):     *)
(* the dimension-role resolver, the CRS resolver with its three-valued     *)
(* cache, the grid-mapping locator and the copy/in-place controller, for   *)
(* DataArray and Dataset objects.                                          *)
(*                                                                         *)
(* Python's None and False are the strings "None" and "False"; a dict is   *)
(* a sequence of <<key, value>> pairs in insertion order.                  *)
(***************************************************************************)
EXTENDS Integers, Sequences, FiniteSets, TLC

VARIABLES
    obj,        \* the xarray object the accessor wraps (self._obj)
    geo,        \* the accessor's private state (self._x_dim, ..., self._crs)
    ret,        \* what the last call returned: an object with its accessor, or a value
    call,       \* the last call made on the accessor: its arguments, what it raised
                \* and how many CRS discovery sources it ran
    explicit,   \* per role, the name last bound by explicit input on this wrapper
    nwarn,      \* number of warnings emitted through this wrapper (warnings.warn)
    nsearch     \* number of CRS discovery sources run through this wrapper

vars == <<obj, geo, ret, call, explicit, nwarn, nsearch>>

None == "None"
False == "False"

(***************************************************************************)
(* Bounds of the model.                                                    *)
(***************************************************************************)
\* longest list of physical dimensions of an array
MaxDims == 3
\* most roles named explicitly in one set_dims call
MaxExplicit == 1
\* a wrapper that has run this many CRS discovery sources starts no further search
MaxSearch == 3

(***************************************************************************)
(* Names.                                                                  *)
(***************************************************************************)
Roles == <<"x", "y", "vertical", "time">>
RoleSet == {"x", "y", "vertical", "time"}

\* candidate names of the vertical role, in priority order
ZCandidates == <<"z", "vertical", "pressure_level">>
\* candidate names of the time role, in priority order
TCandidates == <<"time", "t">>

\* names an array's physical dimensions are drawn from
DimNames == {"x", "y", "z", "vertical", "pressure_level", "time", "t", "a", "b"}
\* a name that is no dimension of any object of the model
BadName == "q"

Range(s) == {s[i] : i \in 1..Len(s)}

\* the extent of the i-th axis (distinct per axis)
Extent(i) == 10 * i

(***************************************************************************)
(* Python dicts.                                                           *)
(***************************************************************************)
Keys(d) == {d[i][1] : i \in 1..Len(d)}

DictGet(d, k, default) ==
    IF k \in Keys(d)
    THEN LET i == CHOOSE j \in 1..Len(d) : d[j][1] = k IN d[i][2]
    ELSE default

DictPut(d, k, v) ==
    IF k \in Keys(d)
    THEN [i \in 1..Len(d) |-> IF d[i][1] = k THEN <<k, v>> ELSE d[i]]
    ELSE Append(d, <<k, v>>)

DictPop(d, k) ==
    LET others(item) == item[1] # k IN SelectSeq(d, others)

(***************************************************************************)
(* _SharedGeoAccessor.__init__                                             *)
(***************************************************************************)
NewGeo ==
    [crs |-> None, x_dim |-> None, y_dim |-> None, vertical_dim |-> None,
     time_dim |-> None, dim_map |-> False, dim_dict |-> <<>>]

\* mutant: the copy's accessor is not given the source's X binding
CopyGeo_without_x(self) ==
    [NewGeo EXCEPT !.crs = self.crs, !.y_dim = self.y_dim,
                   !.vertical_dim = self.vertical_dim, !.time_dim = self.time_dim]

\* _SharedGeoAccessor._get_obj(inplace=False): the accessor of the deep copy
CopyGeo(self) ==
    [NewGeo EXCEPT !.crs = self.crs, !.x_dim = self.x_dim, !.y_dim = self.y_dim,
                   !.vertical_dim = self.vertical_dim, !.time_dim = self.time_dim]

\* _get_obj: the accessor state the call works on
get_obj(self, inplace) == IF inplace THEN self ELSE CopyGeo(self)

(***************************************************************************)
(* GeoDataArrayAccessor.set_dims and its steps.  `self` is the accessor    *)
(* the call was made on and `o` the accessor of the object being modified  *)
(* (the same accessor when inplace).  A step yields [g, exc].              *)
(***************************************************************************)
NoArgs == [x |-> None, y |-> None, vertical |-> None, time |-> None]

Ok(g) == [g |-> g, exc |-> None]
Raise(g, e) == [g |-> g, exc |-> e]

\* mutant: name matching runs even when X is already bound
set_x_dim_rebinding(self, o, dims, x) ==
    IF x = None
    THEN IF "x" \in Range(dims) THEN Ok([o EXCEPT !.x_dim = "x"]) ELSE Ok(o)
    ELSE IF x \in Range(dims) THEN Ok([o EXCEPT !.x_dim = x])
         ELSE Raise(o, "AssertionError")

set_x_dim(self, o, dims, x) ==
    IF x = None /\ self.x_dim = None
    THEN IF "x" \in Range(dims) THEN Ok([o EXCEPT !.x_dim = "x"]) ELSE Ok(o)
    ELSE IF x # None
         THEN IF x \in Range(dims) THEN Ok([o EXCEPT !.x_dim = x])
              ELSE Raise(o, "AssertionError")
         ELSE Ok(o)

set_y_dim(self, o, dims, y) ==
    IF y = None /\ self.y_dim = None
    THEN IF "y" \in Range(dims) THEN Ok([o EXCEPT !.y_dim = "y"]) ELSE Ok(o)
    ELSE IF y # None
         THEN IF y \in Range(dims) THEN Ok([o EXCEPT !.y_dim = y])
              ELSE Raise(o, "AssertionError")
         ELSE Ok(o)

\* mutant: the fallback binds X to the first axis and Y to the second
set_2d_dims_column_major(self, o, dims) ==
    IF Len(dims) = 2 /\ self.x_dim = None /\ self.y_dim = None
    THEN Ok([o EXCEPT !.x_dim = dims[1], !.y_dim = dims[2]])
    ELSE Ok(o)

set_2d_dims(self, o, dims) ==
    IF Len(dims) = 2 /\ self.x_dim = None /\ self.y_dim = None
    THEN Ok([o EXCEPT !.y_dim = dims[1], !.x_dim = dims[2]])
    ELSE Ok(o)

\* the first candidate, in order, that is a dimension; None when there is none
FirstIn(cands, dims) ==
    LET hits == {i \in 1..Len(cands) : cands[i] \in Range(dims)}
    IN IF hits = {} THEN None
       ELSE cands[CHOOSE i \in hits : \A j \in hits : i <= j]

set_vertical_dims(self, o, dims, vertical) ==
    IF vertical = None /\ self.vertical_dim = None
    THEN IF FirstIn(ZCandidates, dims) # None
         THEN Ok([o EXCEPT !.vertical_dim = FirstIn(ZCandidates, dims)])
         ELSE Ok(o)
    ELSE IF vertical # None
         THEN IF vertical \in Range(dims) THEN Ok([o EXCEPT !.vertical_dim = vertical])
              ELSE Raise(o, "AssertionError")
         ELSE Ok(o)

\* mutant: the explicit name is bound without the check that it is a dimension
set_temporal_dims_unchecked(self, o, dims, time) ==
    IF time = None /\ self.time_dim = None
    THEN IF FirstIn(TCandidates, dims) # None
         THEN Ok([o EXCEPT !.time_dim = FirstIn(TCandidates, dims)])
         ELSE Ok(o)
    ELSE IF time # None THEN Ok([o EXCEPT !.time_dim = time])
         ELSE Ok(o)

set_temporal_dims(self, o, dims, time) ==
    IF time = None /\ self.time_dim = None
    THEN IF FirstIn(TCandidates, dims) # None
         THEN Ok([o EXCEPT !.time_dim = FirstIn(TCandidates, dims)])
         ELSE Ok(o)
    ELSE IF time # None
         THEN IF time \in Range(dims) THEN Ok([o EXCEPT !.time_dim = time])
              ELSE Raise(o, "AssertionError")
         ELSE Ok(o)

\* the accessor whose fields a step tests: the one the call was made on, which
\* is the one being modified only when inplace
SelfOf(self, o, inplace) == IF inplace THEN o ELSE self

\* the steps of set_dims after the first: r is [g, exc] of the steps before, and
\* a step that raised ends the call
then_set_y_dim(self, r, dims, y, inplace) ==
    IF r.exc # None THEN r ELSE set_y_dim(SelfOf(self, r.g, inplace), r.g, dims, y)

then_set_2d_dims(self, r, dims, inplace) ==
    IF r.exc # None THEN r ELSE set_2d_dims(SelfOf(self, r.g, inplace), r.g, dims)

then_set_vertical_dims(self, r, dims, vertical, inplace) ==
    IF r.exc # None THEN r
    ELSE set_vertical_dims(SelfOf(self, r.g, inplace), r.g, dims, vertical)

then_set_temporal_dims(self, r, dims, time, inplace) ==
    IF r.exc # None THEN r
    ELSE set_temporal_dims(SelfOf(self, r.g, inplace), r.g, dims, time)

\* obj.geo._dim_map = None
then_reset_dim_map(r) ==
    IF r.exc # None THEN r ELSE Ok([r.g EXCEPT !.dim_map = None, !.dim_dict = <<>>])

\* GeoDataArrayAccessor.set_dims: [g, exc], g the accessor state of the object
\* the call worked on (of the source when inplace, else of the copy)
da_set_dims(self, dims, a, inplace) ==
    then_reset_dim_map(
      then_set_temporal_dims(self,
        then_set_vertical_dims(self,
          then_set_2d_dims(self,
            then_set_y_dim(self,
              set_x_dim(self, get_obj(self, inplace), dims, a.x),
              dims, a.y, inplace),
            dims, inplace),
          dims, a.vertical, inplace),
        dims, a.time, inplace))

(***************************************************************************)
(* _SharedGeoAccessor.dim_map / dims / sizes                               *)
(***************************************************************************)
\* the dict dim_map builds from the four fields, in the order x, y, vertical, time
build_dim_dict(g) ==
    LET d1 == IF g.x_dim # None THEN DictPut(<<>>, g.x_dim, "x") ELSE <<>>
        d2 == IF g.y_dim # None THEN DictPut(d1, g.y_dim, "y") ELSE d1
        d3 == IF g.vertical_dim # None THEN DictPut(d2, g.vertical_dim, "vertical") ELSE d2
    IN IF g.time_dim # None THEN DictPut(d3, g.time_dim, "time") ELSE d3

\* dim_map, after the inference a first access runs: the dict is built when the
\* cached one was reset
then_build_dim_dict(r) ==
    IF r.exc # None THEN r
    ELSE IF r.g.dim_map = None
         THEN Ok([r.g EXCEPT !.dim_map = "dict", !.dim_dict = build_dim_dict(r.g)])
         ELSE r

\* the dim_map property of a DataArray accessor: [g, exc], the dict is g.dim_dict
da_dim_map(self, dims) ==
    then_build_dim_dict(IF self.dim_map = False
                        THEN da_set_dims(self, dims, NoArgs, TRUE)
                        ELSE Ok(self))

\* the dims property, given the dict dim_map returned
dims_view(dims, d) == [i \in 1..Len(dims) |-> DictGet(d, dims[i], dims[i])]

\* the sizes property: a dict filled axis by axis, a later axis overwriting an
\* earlier one presented under the same name
RECURSIVE sizes_fill(_, _, _)
sizes_fill(dims, d, n) ==
    IF n = 0 THEN <<>>
    ELSE DictPut(sizes_fill(dims, d, n - 1), DictGet(d, dims[n], dims[n]), Extent(n))

sizes_view(dims, d) == sizes_fill(dims, d, Len(dims))

(***************************************************************************)
(* GeoDatasetAccessor.set_dims.  The member arrays of a Dataset are built  *)
(* anew on every access, so each is reached through a fresh accessor.      *)
(***************************************************************************)
\* {k: v for k, v in all_dims.items() if v in data_arr.dims}
member_dims(a, dims) == [r \in RoleSet |-> IF a[r] \in Range(dims) THEN a[r] ELSE None]

\* _update_gx_dim_dict: the first n items of `new` put into `old`
RECURSIVE update_gx_dim_dict_upto(_, _, _)
update_gx_dim_dict_upto(old, new, n) ==
    IF n = 0 THEN old
    ELSE IF new[n][2] \in RoleSet
         THEN DictPut(update_gx_dim_dict_upto(old, new, n - 1), new[n][1], new[n][2])
         ELSE update_gx_dim_dict_upto(old, new, n - 1)

update_gx_dim_dict(old, new) == update_gx_dim_dict_upto(old, new, Len(new))

\* data_arr.geo.set_dims(**dims, inplace=True).geo.dim_map on a member array
member_dim_map(dims, a) ==
    da_dim_map(da_set_dims(NewGeo, dims, a, TRUE).g, dims).g.dim_dict

\* the body of the loop over data_vars, for a member array with dimensions
\* `dims`: a member that has none of the names is skipped
ds_collect_member(dim_map, dims, a) ==
    IF a = NoArgs THEN dim_map ELSE update_gx_dim_dict(dim_map, member_dim_map(dims, a))

\* the loop over data_vars: the dict after the first n member arrays
RECURSIVE ds_collect_dims(_, _, _, _)
ds_collect_dims(data_vars, a, dim_map, n) ==
    IF n = 0 THEN dim_map
    ELSE ds_collect_member(ds_collect_dims(data_vars, a, dim_map, n - 1),
                           data_vars[n].dims, member_dims(a, data_vars[n].dims))

SetDim(g, r, name) ==
    CASE r = "x" -> [g EXCEPT !.x_dim = name]
      [] r = "y" -> [g EXCEPT !.y_dim = name]
      [] r = "vertical" -> [g EXCEPT !.vertical_dim = name]
      [] r = "time" -> [g EXCEPT !.time_dim = name]

\* setattr(obj_copy.geo, f"_{gx_dim_name}_dim", dim_name) over the first n items
RECURSIVE ds_update_attributes_upto(_, _, _)
ds_update_attributes_upto(g, dim_map, n) ==
    IF n = 0 THEN g
    ELSE IF dim_map[n][2] = None
         THEN ds_update_attributes_upto(g, dim_map, n - 1)
         ELSE SetDim(ds_update_attributes_upto(g, dim_map, n - 1),
                     dim_map[n][2], dim_map[n][1])

\* mutant: the collected names are not written back to the accessor
ds_update_attributes_skipped(g, dim_map) == g

ds_update_attributes(g, dim_map) == ds_update_attributes_upto(g, dim_map, Len(dim_map))

\* the work of set_dims on the accessor o of the object being modified: the dict
\* dim_map builds for it, updated from the member arrays, then written back
ds_set_dims_on(o, data_vars, a) ==
    ds_update_attributes(o, ds_collect_dims(data_vars, a, build_dim_dict(o), Len(data_vars)))

\* GeoDatasetAccessor.set_dims: [g, exc]
ds_set_dims(self, data_vars, a, inplace) ==
    then_reset_dim_map(Ok(ds_set_dims_on(get_obj(self, inplace), data_vars, a)))

\* the dim_map property of a Dataset accessor
ds_dim_map(self, data_vars) ==
    then_build_dim_dict(IF self.dim_map = False
                        THEN ds_set_dims(self, data_vars, NoArgs, TRUE)
                        ELSE Ok(self))

(***************************************************************************)
(* pyproj: a CRS is one of CrsIds; its WKT text and its CF attributes are  *)
(* records naming it, and text or attributes naming no CRS do not parse.   *)
(***************************************************************************)
CrsIds == {"A", "B", "C", "D", "E"}

\* CRS.to_wkt
to_wkt(crs) == [fmt |-> "wkt", of |-> crs]
\* a string that is no WKT
BadWkt == [fmt |-> "wkt", of |-> "garbage"]
\* the grid-mapping parameters CRS.to_cf gives
to_cf(crs) == [fmt |-> "cf", of |-> crs]
\* grid-mapping parameters that describe no CRS
BadCf == [fmt |-> "cf", of |-> "garbage"]

\* what one CRS source yields: a CRS or None, an exception, warnings emitted
Found(crs) == [val |-> crs, exc |-> None, warns |-> 0]
NotFound == [val |-> None, exc |-> None, warns |-> 0]
Failed(e) == [val |-> None, exc |-> e, warns |-> 0]

\* CRS.from_wkt
from_wkt(text) == IF text.of \in CrsIds THEN Found(text.of) ELSE Failed("CRSError")

\* CRS.from_cf on a coordinate variable's attributes that hold no WKT
from_cf(attrs) ==
    IF "grid_mapping_name" \notin Keys(attrs) THEN Failed("KeyError")
    ELSE IF DictGet(attrs, "grid_mapping_name", BadCf).of \in CrsIds
         THEN Found(DictGet(attrs, "grid_mapping_name", BadCf).of)
         ELSE Failed("CRSError")

\* CRS.from_user_input: a CRS object, or text to parse
from_user_input(info) ==
    IF info.fmt = "crs" THEN Found(info.of) ELSE from_wkt(info)

(***************************************************************************)
(* _SharedGeoAccessor.grid_mapping                                         *)
(***************************************************************************)
DEFAULT_GRID_MAPPING_VARIABLE_NAME == "spatial_ref"

\* _get_encoding_or_attr
get_encoding_or_attr(o, name) == DictGet(o.encoding, name, DictGet(o.attrs, name, None))

\* _all_grid_mapping_names, as the set grid_mapping makes of them
all_grid_mapping_names(o) ==
    {get_encoding_or_attr(o.data_vars[i], "grid_mapping") : i \in 1..Len(o.data_vars)}
        \ {None}

\* self._obj.encoding.get("grid_mapping") or self._obj.attrs.get("grid_mapping")
gm_var_name(o) ==
    IF DictGet(o.encoding, "grid_mapping", None) # None
    THEN DictGet(o.encoding, "grid_mapping", None)
    ELSE DictGet(o.attrs, "grid_mapping", None)

\* the grid_mapping property: [val, exc]
grid_mapping(o) ==
    IF gm_var_name(o) # None THEN [val |-> gm_var_name(o), exc |-> None]
    ELSE IF o.kind = "Dataset" /\ Cardinality(all_grid_mapping_names(o)) > 1
         THEN [val |-> None, exc |-> "RuntimeError"]
    ELSE IF o.kind = "Dataset" /\ Cardinality(all_grid_mapping_names(o)) = 1
         THEN [val |-> CHOOSE n \in all_grid_mapping_names(o) : TRUE, exc |-> None]
    ELSE [val |-> None, exc |-> None]

(***************************************************************************)
(* The CRS sources and the crs property.                                   *)
(***************************************************************************)
\* mutant: a pointer to a variable that is no coordinate goes unreported
gm_var_named_silent(o, gm) ==
    IF gm.exc # None THEN [found |-> FALSE, var |-> <<>>, exc |-> gm.exc, warns |-> 0]
    ELSE IF gm.val = None \/ gm.val \notin Keys(o.coords)
         THEN [found |-> FALSE, var |-> <<>>, exc |-> None, warns |-> 0]
    ELSE [found |-> TRUE, var |-> DictGet(o.coords, gm.val, <<>>), exc |-> None,
          warns |-> 0]

\* _get_gm_var, given what grid_mapping gave: [found, var, exc, warns], var the
\* attributes of the coordinate variable
gm_var_named(o, gm) ==
    IF gm.exc # None THEN [found |-> FALSE, var |-> <<>>, exc |-> gm.exc, warns |-> 0]
    ELSE IF gm.val = None THEN [found |-> FALSE, var |-> <<>>, exc |-> None, warns |-> 0]
    ELSE IF gm.val \notin Keys(o.coords)
         THEN [found |-> FALSE, var |-> <<>>, exc |-> None, warns |-> 1]
    ELSE [found |-> TRUE, var |-> DictGet(o.coords, gm.val, <<>>), exc |-> None,
          warns |-> 0]

get_gm_var(o) == gm_var_named(o, grid_mapping(o))

\* the exceptions _get_crs_from_cf catches
CfCaught_KeyError_only == {"KeyError"}
CfCaught == {"KeyError", "CRSError"}

\* self._obj.coords[self.grid_mapping or DEFAULT_GRID_MAPPING_VARIABLE_NAME].attrs,
\* parsed as CF parameters
from_cf_coord(o, gm) ==
    IF gm.exc # None THEN Failed(gm.exc)
    ELSE IF (IF gm.val # None THEN gm.val ELSE DEFAULT_GRID_MAPPING_VARIABLE_NAME)
               \notin Keys(o.coords)
         THEN Failed("KeyError")
    ELSE from_cf(DictGet(o.coords,
                         IF gm.val # None THEN gm.val
                         ELSE DEFAULT_GRID_MAPPING_VARIABLE_NAME, <<>>))

except_cf(r) == IF r.exc \in CfCaught THEN NotFound ELSE r

get_crs_from_cf(o) == except_cf(from_cf_coord(o, grid_mapping(o)))

\* the attributes _get_crs_from_grid_mapping reads WKT from, in order
CrsAttrs == <<"spatial_ref", "crs_wkt">>

\* the loop of _get_crs_from_grid_mapping from its i-th attribute on, and its
\* else branch
RECURSIVE crs_from_attrs(_, _, _)
crs_from_attrs(o, var, i) ==
    IF i > Len(CrsAttrs) THEN get_crs_from_cf(o)
    ELSE IF CrsAttrs[i] \notin Keys(var) THEN crs_from_attrs(o, var, i + 1)
    ELSE from_wkt(DictGet(var, CrsAttrs[i], BadWkt))

crs_from_gm_var(o, v) ==
    IF v.exc # None \/ ~ v.found
    THEN [val |-> None, exc |-> v.exc, warns |-> v.warns]
    ELSE crs_from_attrs(o, v.var, 1)

get_crs_from_grid_mapping(o) == crs_from_gm_var(o, get_gm_var(o))

\* an object with no crs attribute
NoCrsArea == [has_crs |-> FALSE, crs |-> None]
\* a pyresample area definition
Area(crs) == [has_crs |-> TRUE, crs |-> crs]

get_crs_from_pyresample(o) ==
    IF "area" \notin Keys(o.attrs) THEN NotFound
    ELSE IF DictGet(o.attrs, "area", NoCrsArea).has_crs
         THEN Found(DictGet(o.attrs, "area", NoCrsArea).crs)
         ELSE NotFound

\* mutant: the area descriptor is asked before the grid mapping
crs_methods_area_first == <<"pyresample", "grid_mapping">>

\* the sources of the crs property, in the order it tries them
crs_methods == <<"grid_mapping", "pyresample">>

crs_method(name, o) ==
    CASE name = "grid_mapping" -> get_crs_from_grid_mapping(o)
      [] name = "pyresample" -> get_crs_from_pyresample(o)

\* what a crs access gives: the accessor after it, the value returned, the
\* exception raised, warnings emitted and sources run
Access(g, val, exc, warns, searched) ==
    [g |-> g, val |-> val, exc |-> exc, warns |-> warns, searched |-> searched]

after_source(r, m) == [r EXCEPT !.warns = @ + m.warns, !.searched = @ + 1]

\* mutant: a search that found nothing leaves the cache "not yet tried"
crs_not_found_uncached(self) == Access(self, None, None, 0, 0)

\* the else branch of the loop: self._crs = False
crs_not_found(self) == Access([self EXCEPT !.crs = False], None, None, 0, 0)

\* the loop over crs_methods from the i-th on; m is what the i-th gave
RECURSIVE crs_search(_, _, _)
crs_search_step(self, o, i, m) ==
    IF m.exc # None THEN Access(self, None, m.exc, m.warns, 1)
    ELSE IF m.val # None THEN Access([self EXCEPT !.crs = m.val], m.val, None, m.warns, 1)
    ELSE after_source(crs_search(self, o, i + 1), m)

crs_search(self, o, i) ==
    IF i > Len(crs_methods) THEN crs_not_found(self)
    ELSE crs_search_step(self, o, i, crs_method(crs_methods[i], o))

\* the crs property
crs_get(self, o) ==
    IF self.crs = False THEN Access(self, None, None, 0, 0)
    ELSE IF self.crs # None THEN Access(self, self.crs, None, 0, 0)
    ELSE crs_search(self, o, 1)

(***************************************************************************)
(* write_crs                                                               *)
(***************************************************************************)
\* no new_crs_info given
NoInput == [fmt |-> "none", of |-> None]

\* the attributes of the grid mapping variable write_crs creates
gm_attrs(crs) ==
    << <<"grid_mapping_name", to_cf(crs)>>, <<"crs_wkt", to_wkt(crs)>>,
       <<"spatial_ref", to_wkt(crs)>> >>

\* the dims view of a member array, through its own fresh accessor
member_view(m) == dims_view(m.dims, da_dim_map(NewGeo, m.dims).g.dim_dict)

\* mutant: the pointer is left in the attributes
assign_one_keeping_attrs(o, name) ==
    [o EXCEPT !.encoding = DictPut(@, "grid_mapping", name)]

\* on one object: attrs.pop("grid_mapping"), encoding["grid_mapping"] = name
assign_one(o, name) ==
    [o EXCEPT !.attrs = DictPop(@, "grid_mapping"),
              !.encoding = DictPut(@, "grid_mapping", name)]

\* _assign_grid_mapping: the object, and for a Dataset its member arrays that
\* have a spatial dimension
assign_grid_mapping(o, name) ==
    IF o.kind = "Dataset" /\ o.data_vars # <<>>
    THEN [assign_one(o, name) EXCEPT !.data_vars =
            [i \in 1..Len(o.data_vars) |->
                IF Range(member_view(o.data_vars[i])) \cap {"x", "y", "z"} = {}
                THEN o.data_vars[i]
                ELSE assign_one(o.data_vars[i], name)]]
    ELSE assign_one(o, name)

\* mutant: no CRS given and none found is not an error
crs_from_self_unchecked(self, c, inplace) ==
    [crs |-> c.val, exc |-> c.exc,
     g |-> IF inplace THEN c.g ELSE CopyGeo(self),
     self_g |-> c.g, warns |-> c.warns, searched |-> c.searched]

\* _optional_crs_from_input without new_crs_info, c what self.crs gave:
\* [crs, exc, g, self_g, warns, searched], g the accessor of the object being
\* modified and self_g the one the call was made on
crs_from_self(self, c, inplace) ==
    [crs |-> c.val,
     exc |-> IF c.exc = None /\ c.val = None THEN "RuntimeError" ELSE c.exc,
     g |-> IF inplace THEN c.g ELSE CopyGeo(self),
     self_g |-> c.g, warns |-> c.warns, searched |-> c.searched]

\* mutant: the given CRS is not stored in the accessor of the object written
crs_from_input_uncached(self, u, inplace) ==
    [crs |-> u.val, exc |-> u.exc, g |-> get_obj(self, inplace), self_g |-> self,
     warns |-> 0, searched |-> 0]

\* mutant: the given CRS is stored in the accessor the call was made on, too
crs_from_input_on_self(self, u, inplace) ==
    [crs |-> u.val, exc |-> u.exc,
     g |-> IF u.exc # None THEN get_obj(self, inplace)
           ELSE [get_obj(self, inplace) EXCEPT !.crs = u.val],
     self_g |-> IF u.exc = None THEN [self EXCEPT !.crs = u.val] ELSE self,
     warns |-> 0, searched |-> 0]

\* _optional_crs_from_input with new_crs_info, u what from_user_input gave
crs_from_input(self, u, inplace) ==
    [crs |-> u.val, exc |-> u.exc,
     g |-> IF u.exc # None THEN get_obj(self, inplace)
           ELSE [get_obj(self, inplace) EXCEPT !.crs = u.val],
     self_g |-> IF inplace /\ u.exc = None THEN [self EXCEPT !.crs = u.val] ELSE self,
     warns |-> 0, searched |-> 0]

optional_crs_from_input(self, o, new_crs_info, inplace) ==
    IF new_crs_info = NoInput
    THEN crs_from_self(self, crs_get(self, o), inplace)
    ELSE crs_from_input(self, from_user_input(new_crs_info), inplace)

\* mutant: the name the object already knows is not used
write_name_default_only(o, grid_mapping_name) ==
    IF grid_mapping_name # None THEN [val |-> grid_mapping_name, exc |-> None]
    ELSE [val |-> DEFAULT_GRID_MAPPING_VARIABLE_NAME, exc |-> None]

\* the name of the variable to write: [val, exc]
write_name(o, grid_mapping_name) ==
    IF grid_mapping_name # None THEN [val |-> grid_mapping_name, exc |-> None]
    ELSE IF grid_mapping(o).exc # None \/ grid_mapping(o).val # None THEN grid_mapping(o)
    ELSE [val |-> DEFAULT_GRID_MAPPING_VARIABLE_NAME, exc |-> None]

\* write_crs once the CRS c and the name n are known: [obj, g, self_g, exc,
\* warns, searched]
write_crs_as(o, c, n) ==
    [obj |-> IF c.exc # None \/ n.exc # None THEN o
             ELSE assign_grid_mapping(
                      [o EXCEPT !.coords = DictPut(@, n.val, gm_attrs(c.crs))], n.val),
     g |-> c.g, self_g |-> c.self_g,
     exc |-> IF c.exc # None THEN c.exc ELSE n.exc,
     warns |-> c.warns, searched |-> c.searched]

write_crs(self, o, new_crs_info, grid_mapping_name, inplace) ==
    write_crs_as(o, optional_crs_from_input(self, o, new_crs_info, inplace),
                 write_name(o, grid_mapping_name))

(***************************************************************************)
(* write_dims                                                              *)
(***************************************************************************)
\* the dim_map property of either kind of object
dim_map_of(self, o) ==
    IF o.kind = "Dataset" THEN ds_dim_map(self, o.data_vars) ELSE da_dim_map(self, o.dims)

\* mutant: the member arrays of a Dataset keep their dimension names
rename_own_dims_only(o, name_dict) == [o EXCEPT !.dims = dims_view(o.dims, name_dict)]

\* xarray's rename(name_dict) on the copy: the dimensions of the object, and of
\* the member arrays of a Dataset, under their new names
rename(o, name_dict) ==
    [o EXCEPT !.dims = dims_view(o.dims, name_dict),
              !.data_vars =
                  IF o.data_vars = <<>> THEN <<>>
                  ELSE [i \in 1..Len(o.data_vars) |->
                          [o.data_vars[i] EXCEPT
                              !.dims = dims_view(o.data_vars[i].dims, name_dict)]]]

\* write_dims, dm what self.dim_map gave: [obj, g, self_g, exc].  rename returns
\* a new xarray object, whose accessor is made when it is first asked for
write_dims_by(o, dm) ==
    [obj |-> IF dm.exc # None THEN o ELSE rename(o, dm.g.dim_dict),
     g |-> NewGeo, self_g |-> dm.g, exc |-> dm.exc]

write_dims(self, o) == write_dims_by(o, dim_map_of(self, o))

(***************************************************************************)
(* The objects of the model.                                               *)
(***************************************************************************)
\* all lists of at most n distinct dimension names
RECURSIVE DimLists(_)
DimLists(n) ==
    IF n = 0 THEN {<<>>}
    ELSE LET shorter == DimLists(n - 1)
         IN shorter \cup UNION {{Append(s, d) : d \in DimNames \ Range(s)} :
                                s \in {t \in shorter : Len(t) = n - 1}}

\* a DataArray with the given dimensions and no metadata
PlainArray(dims) ==
    [kind |-> "DataArray", dims |-> dims,
     attrs |-> <<>>, encoding |-> <<>>, coords |-> <<>>, data_vars |-> <<>>]

\* the dimensions of a Dataset: those of its first n member arrays, in order of
\* first appearance
RECURSIVE ds_dims(_, _)
ds_dims(data_vars, n) ==
    IF n = 0 THEN <<>>
    ELSE LET before == ds_dims(data_vars, n - 1)
             fresh(d) == d \notin Range(before)
         IN before \o SelectSeq(data_vars[n].dims, fresh)

\* a Dataset of the given member arrays and no metadata of its own
PlainDataset(data_vars) ==
    [kind |-> "Dataset", dims |-> ds_dims(data_vars, Len(data_vars)),
     attrs |-> <<>>, encoding |-> <<>>, coords |-> <<>>, data_vars |-> data_vars]

NoRet == [kind |-> "none"]
NoCall == [op |-> "none", given |-> "none", inplace |-> TRUE, raised |-> None, searched |-> 0]

\* what a call's explicit names were: none given, all of them dimensions of the
\* object, or one of them not
Given(dims, a) ==
    IF a = NoArgs THEN "none"
    ELSE IF \A r \in RoleSet : a[r] \in Range(dims) \cup {None} THEN "valid"
    ELSE "invalid"

\* the explicit arguments a set_dims call on an object with these dimensions may
\* be given: per role nothing, one of the dimensions, or a name that is none
ArgValues(dims) == Range(dims) \cup {None, BadName}
ArgSets(dims) ==
    {a \in [x : ArgValues(dims), y : ArgValues(dims),
            vertical : ArgValues(dims), time : ArgValues(dims)] :
        Cardinality({r \in RoleSet : a[r] # None}) <= MaxExplicit}

GetDim(g, r) ==
    CASE r = "x" -> g.x_dim [] r = "y" -> g.y_dim
      [] r = "vertical" -> g.vertical_dim [] r = "time" -> g.time_dim

\* role r's explicit name was a dimension and its step ran: no earlier role's
\* explicit name raised
BoundExplicitly(dims, a, r) ==
    /\ a[r] # None
    /\ a[r] \in Range(dims)
    /\ \A i \in 1..Len(Roles) :
          (\E j \in 1..Len(Roles) : Roles[j] = r /\ i < j) =>
             (a[Roles[i]] = None \/ a[Roles[i]] \in Range(dims))

\* per role, the name that explicit input has bound it to: the name of this call
\* when its step ran and the role is left bound to it, else the earlier one
NewExplicit(old, g, dims, a) ==
    [r \in RoleSet |->
        IF BoundExplicitly(dims, a, r)
        THEN IF GetDim(g, r) = a[r] THEN a[r] ELSE None
        ELSE old[r]]

(***************************************************************************)
(* Operations on a DataArray's accessor.                                   *)
(***************************************************************************)
\* data_arr.geo.set_dims(x=, y=, vertical=, time=, inplace=)
DaSetDims(a, inplace) ==
    LET r == da_set_dims(geo, obj.dims, a, inplace) IN
    /\ obj.kind = "DataArray"
    /\ call' = [op |-> "set_dims", given |-> Given(obj.dims, a), inplace |-> inplace,
                raised |-> r.exc, searched |-> 0]
    /\ geo' = IF inplace THEN r.g ELSE geo
    /\ explicit' = IF inplace THEN NewExplicit(explicit, r.g, obj.dims, a) ELSE explicit
    /\ ret' = IF r.exc # None THEN NoRet
              ELSE [kind |-> "object", obj |-> obj, geo |-> r.g,
                    explicit |-> NewExplicit(explicit, r.g, obj.dims, a)]
    /\ UNCHANGED <<obj, nwarn, nsearch>>

\* data_arr.geo.dims, .sizes or .dim_map
DaRead(p) ==
    LET r == da_dim_map(geo, obj.dims) IN
    /\ obj.kind = "DataArray"
    /\ call' = [op |-> p, given |-> "none", inplace |-> TRUE, raised |-> r.exc,
                searched |-> 0]
    /\ geo' = r.g
    /\ ret' = IF r.exc # None THEN NoRet
              ELSE [kind |-> "value",
                    val |-> CASE p = "dims" -> dims_view(obj.dims, r.g.dim_dict)
                              [] p = "sizes" -> sizes_view(obj.dims, r.g.dim_dict)
                              [] p = "dim_map" -> r.g.dim_dict]
    /\ UNCHANGED <<obj, explicit, nwarn, nsearch>>

\* the caller goes on with the object the last call returned
UseReturned ==
    /\ ret.kind = "object"
    /\ ~ call.inplace
    /\ obj' = ret.obj
    /\ geo' = ret.geo
    /\ explicit' = ret.explicit
    /\ call' = NoCall
    /\ ret' = NoRet
    /\ nwarn' = 0
    /\ nsearch' = 0

(***************************************************************************)
(* The CRS operations on a DataArray's accessor.                           *)
(***************************************************************************)
\* data_arr.geo.crs
DaCrs ==
    LET r == crs_get(geo, obj) IN
    /\ obj.kind = "DataArray"
    /\ nsearch < MaxSearch
    /\ call' = [op |-> "crs", given |-> "none", inplace |-> TRUE, raised |-> r.exc,
                searched |-> r.searched]
    /\ geo' = r.g
    /\ ret' = IF r.exc # None THEN NoRet ELSE [kind |-> "value", val |-> r.val]
    /\ nwarn' = nwarn + r.warns
    /\ nsearch' = nsearch + r.searched
    /\ UNCHANGED <<obj, explicit>>

\* data_arr.geo.write_crs(new_crs_info, grid_mapping_name=, inplace=)
DaWriteCrs(new_crs_info, grid_mapping_name, inplace) ==
    LET r == write_crs(geo, obj, new_crs_info, grid_mapping_name, inplace) IN
    /\ obj.kind = "DataArray"
    /\ nsearch < MaxSearch
    /\ call' = [op |-> "write_crs", given |-> "none", inplace |-> inplace,
                raised |-> r.exc, searched |-> r.searched,
                info |-> new_crs_info, name |-> grid_mapping_name]
    /\ geo' = r.self_g
    /\ obj' = IF inplace THEN r.obj ELSE obj
    /\ ret' = IF r.exc # None THEN NoRet
              ELSE [kind |-> "object", obj |-> r.obj, geo |-> r.g, explicit |-> explicit]
    /\ nwarn' = nwarn + r.warns
    /\ nsearch' = nsearch + r.searched
    /\ UNCHANGED explicit

(***************************************************************************)
(* Operations on a Dataset's accessor.                                     *)
(***************************************************************************)
\* ds.geo.set_dims(x=, y=, vertical=, time=, inplace=)
DsSetDims(a, inplace) ==
    LET r == ds_set_dims(geo, obj.data_vars, a, inplace) IN
    /\ obj.kind = "Dataset"
    /\ call' = [op |-> "set_dims", given |-> Given(obj.dims, a), inplace |-> inplace,
                raised |-> r.exc, searched |-> 0, args |-> a]
    /\ geo' = IF inplace THEN r.g ELSE geo
    /\ ret' = [kind |-> "object", obj |-> obj, geo |-> r.g, explicit |-> explicit]
    /\ UNCHANGED <<obj, explicit, nwarn, nsearch>>

\* ds.geo.dims, .sizes or .dim_map
DsRead(p) ==
    LET r == ds_dim_map(geo, obj.data_vars) IN
    /\ obj.kind = "Dataset"
    /\ call' = [op |-> p, given |-> "none", inplace |-> TRUE, raised |-> r.exc,
                searched |-> 0]
    /\ geo' = r.g
    /\ ret' = [kind |-> "value",
               val |-> CASE p = "dims" -> dims_view(obj.dims, r.g.dim_dict)
                         [] p = "sizes" -> sizes_view(obj.dims, r.g.dim_dict)
                         [] p = "dim_map" -> r.g.dim_dict]
    /\ UNCHANGED <<obj, explicit, nwarn, nsearch>>

(***************************************************************************)
(* Operations of both kinds of object: the operation of the shared         *)
(* accessor class on whatever object the wrapper holds.                    *)
(***************************************************************************)
\* obj.geo.grid_mapping
GridMapping ==
    LET r == grid_mapping(obj) IN
    /\ call' = [op |-> "grid_mapping", given |-> "none", inplace |-> TRUE,
                raised |-> r.exc, searched |-> 0]
    /\ ret' = IF r.exc # None THEN NoRet ELSE [kind |-> "value", val |-> r.val]
    /\ UNCHANGED <<obj, geo, explicit, nwarn, nsearch>>

\* obj.geo.write_dims()
WriteDims ==
    LET r == write_dims(geo, obj) IN
    /\ call' = [op |-> "write_dims", given |-> "none", inplace |-> FALSE,
                raised |-> r.exc, searched |-> 0]
    /\ geo' = r.self_g
    /\ ret' = IF r.exc # None THEN NoRet
              ELSE [kind |-> "object", obj |-> r.obj, geo |-> r.g, explicit |-> NoArgs]
    /\ UNCHANGED <<obj, explicit, nwarn, nsearch>>

\* ds.geo.crs
DsCrs ==
    LET r == crs_get(geo, obj) IN
    /\ obj.kind = "Dataset"
    /\ nsearch < MaxSearch
    /\ call' = [op |-> "crs", given |-> "none", inplace |-> TRUE, raised |-> r.exc,
                searched |-> r.searched]
    /\ geo' = r.g
    /\ ret' = IF r.exc # None THEN NoRet ELSE [kind |-> "value", val |-> r.val]
    /\ nwarn' = nwarn + r.warns
    /\ nsearch' = nsearch + r.searched
    /\ UNCHANGED <<obj, explicit>>

\* ds.geo.write_crs(new_crs_info, grid_mapping_name=, inplace=)
DsWriteCrs(new_crs_info, grid_mapping_name, inplace) ==
    LET r == write_crs(geo, obj, new_crs_info, grid_mapping_name, inplace) IN
    /\ obj.kind = "Dataset"
    /\ nsearch < MaxSearch
    /\ call' = [op |-> "write_crs", given |-> "none", inplace |-> inplace,
                raised |-> r.exc, searched |-> r.searched,
                info |-> new_crs_info, name |-> grid_mapping_name]
    /\ geo' = r.self_g
    /\ obj' = IF inplace THEN r.obj ELSE obj
    /\ ret' = IF r.exc # None THEN NoRet
              ELSE [kind |-> "object", obj |-> r.obj, geo |-> r.g, explicit |-> explicit]
    /\ nwarn' = nwarn + r.warns
    /\ nsearch' = nsearch + r.searched
    /\ UNCHANGED explicit

(***************************************************************************)
(* Spec: one DataArray with any list of dimensions and a fresh accessor,   *)
(* under inference alone: set_dims without explicit names, and reads of    *)
(* dims, sizes and dim_map.                                                *)
(***************************************************************************)
FreshAccessor ==
    /\ geo = NewGeo
    /\ ret = NoRet
    /\ call = NoCall
    /\ explicit = NoArgs
    /\ nwarn = 0
    /\ nsearch = 0

Init ==
    /\ obj \in {PlainArray(d) : d \in DimLists(MaxDims)}
    /\ FreshAccessor

Next ==
    \/ \E inplace \in BOOLEAN : DaSetDims(NoArgs, inplace)
    \/ \E p \in {"dims", "sizes", "dim_map"} : DaRead(p)
    \/ UseReturned

Spec == Init /\ [][Next]_vars

(***************************************************************************)
(* SpecExplicit: the arrays of the accessor's own tests                    *)
(* (tests/test_accessor/_data_array_cases.py) under set_dims calls with    *)
(* explicit names, valid or not, and the reads.                            *)
(***************************************************************************)
TestArrays ==
    { <<"y", "x">>,             \* geotiff_y_x
      <<"a", "b">>,             \* geotiff_b_a
      <<"z">> }                 \* one axis: the two-axis fallback never applies

InitExplicit ==
    /\ obj \in {PlainArray(d) : d \in TestArrays}
    /\ FreshAccessor

NextExplicit ==
    \/ \E a \in ArgSets(obj.dims), inplace \in BOOLEAN : DaSetDims(a, inplace)
    \/ \E p \in {"dims", "sizes", "dim_map"} : DaRead(p)
    \/ UseReturned

SpecExplicit == InitExplicit /\ [][NextExplicit]_vars

(***************************************************************************)
(* SpecDs: a Dataset whose member arrays share some dimensions or none,    *)
(* under set_dims calls with explicit names, valid or not, and the reads.  *)
(***************************************************************************)
TestDatasets ==
    { << <<"y", "x">>, <<>> >>,         \* an image and a scalar variable
      << <<"y">>, <<"x">> >>,           \* two one-axis variables
      << <<"a", "b">>, <<"b">> >> }     \* no name any role looks for

InitDs ==
    /\ obj \in {PlainDataset([i \in 1..Len(ds) |-> PlainArray(ds[i])]) : ds \in TestDatasets}
    /\ FreshAccessor

NextDs ==
    \/ \E a \in ArgSets(obj.dims), inplace \in BOOLEAN : DsSetDims(a, inplace)
    \/ \E p \in {"dims", "sizes", "dim_map"} : DsRead(p)
    \/ UseReturned

SpecDs == InitDs /\ [][NextDs]_vars

(***************************************************************************)
(* SpecCrs: a two-axis DataArray with any combination of CRS metadata: a   *)
(* grid-mapping pointer in attrs or encoding, a coordinate variable it may *)
(* name, with or without WKT and CF attributes, good or bad, and an area   *)
(* descriptor; under crs reads and write_crs calls.                        *)
(***************************************************************************)
\* the dicts with at most the one key k, its value one of vs
Opt(k, vs) == {<<>>} \cup {<< <<k, v>> >> : v \in vs}

\* attributes a coordinate variable may carry
GmVarAttrs ==
    {n \o w \o r : n \in Opt("grid_mapping_name", {to_cf("C"), BadCf}),
                   w \in Opt("crs_wkt", {to_wkt("B")}),
                   r \in Opt("spatial_ref", {to_wkt("A"), BadWkt})}

CrsArrays ==
    {[kind |-> "DataArray", dims |-> <<"y", "x">>,
      attrs |-> gm \o area, encoding |-> enc, coords |-> coords, data_vars |-> <<>>] :
        gm \in Opt("grid_mapping", {"a_grid_map_var", "other"}),
        area \in Opt("area", {NoCrsArea, Area("D")}),
        enc \in Opt("grid_mapping", {"a_grid_map_var"}),
        coords \in Opt("a_grid_map_var", GmVarAttrs)}

\* what write_crs may be given as new_crs_info: nothing, a CRS object, text that
\* does not parse
CrsInputs == {NoInput, [fmt |-> "crs", of |-> "E"], BadWkt}

InitCrs ==
    /\ obj \in CrsArrays
    /\ FreshAccessor

NextCrs ==
    \/ DaCrs
    \/ \E info \in CrsInputs, name \in {None, "my_gm"}, inplace \in BOOLEAN :
          DaWriteCrs(info, name, inplace)
    \/ UseReturned

SpecCrs == InitCrs /\ [][NextCrs]_vars

(***************************************************************************)
(* SpecWrite: arrays and Datasets with grid-mapping pointers in attributes *)
(* or encoding, of the object or of its member arrays, under the reads of  *)
(* grid_mapping and crs, write_crs and write_dims.                         *)
(***************************************************************************)
\* a grid mapping variable with CF parameters and no WKT
\* (cf_grid_mapping_geos_no_wkt)
CfVar(crs) == << <<"grid_mapping_name", to_cf(crs)>> >>

WriteArrays ==
    {[kind |-> "DataArray", dims |-> <<"y", "x">>,
      attrs |-> gm \o area, encoding |-> enc, coords |-> coords, data_vars |-> <<>>] :
        gm \in Opt("grid_mapping", {"a_grid_map_var"}),
        area \in Opt("area", {Area("D")}),
        enc \in Opt("grid_mapping", {"gm1"}),
        coords \in Opt("a_grid_map_var", {CfVar("C"), << <<"grid_mapping_name", BadCf>> >>})}

\* a member array of a Dataset
Member(dims, attrs, encoding) ==
    [kind |-> "DataArray", dims |-> dims, attrs |-> attrs, encoding |-> encoding,
     coords |-> <<>>, data_vars |-> <<>>]

\* Datasets of two member arrays that name no, one or two grid mapping
\* variables (cf_0gm_no_coords, cf_1gm_geos_y_x, cf_3gm_geos_y_x), with or
\* without a pointer of the Dataset's own
WriteDatasets ==
    {[PlainDataset(<<Member(<<"y", "x">>, gm_a, <<>>), Member(<<"y", "x">>, <<>>, gm_b)>>)
        EXCEPT !.attrs = own, !.coords = c1 \o c2] :
        gm_a \in Opt("grid_mapping", {"gm1", "gm2"}),
        gm_b \in Opt("grid_mapping", {"gm1", "gm2"}),
        own \in Opt("grid_mapping", {"gm1"}),
        c1 \in Opt("gm1", {CfVar("A")}),
        c2 \in Opt("gm2", {CfVar("B")})}

InitWrite ==
    /\ obj \in WriteArrays \cup WriteDatasets
    /\ FreshAccessor

NextWrite ==
    \/ GridMapping
    \/ DaCrs
    \/ DsCrs
    \/ \E info \in CrsInputs, name \in {None, "my_gm"}, inplace \in BOOLEAN :
          DaWriteCrs(info, name, inplace)
    \/ \E info \in CrsInputs, name \in {None, "my_gm"}, inplace \in BOOLEAN :
          DsWriteCrs(info, name, inplace)
    \/ WriteDims
    \/ UseReturned

SpecWrite == InitWrite /\ [][NextWrite]_vars

(***************************************************************************)
(* SpecRename: arrays and Datasets under set_dims with explicit names,     *)
(* the dims read, write_dims and, for a Dataset, write_crs.  The Datasets  *)
(* have member arrays of two axes, of one axis, of a vertical axis alone   *)
(* and of none (the Rad, different_spatial and scalar_var variables of     *)
(* tests/test_accessor/_dataset_cases.py, and two more kinds).             *)
(***************************************************************************)
RenameDatasets ==
    { << <<"a", "b">>, <<"a">>, <<"z">>, <<>> >>,
      << <<"z", "b">>, <<"pressure_level", "b">> >> }

\* the explicit names of a set_dims call on an array: at most one, for any role
OneName(dims) ==
    {NoArgs} \cup {[NoArgs EXCEPT ![r] = d] : r \in RoleSet, d \in Range(dims)}

\* the explicit names of a set_dims call on a Dataset: any for x and for y
XYNames(dims) ==
    {[NoArgs EXCEPT !.x = a, !.y = b] : a, b \in Range(dims) \cup {None}}

\* no name is twice in the list
NoRepeats(s) == \A i, j \in 1..Len(s) : s[i] = s[j] => i = j

\* rename gives no two dimensions of the object the same name (what xarray does
\* when it would is not part of this model)
RenameIsInjective ==
    NoRepeats(dims_view(obj.dims, dim_map_of(geo, obj).g.dim_dict))

InitRename ==
    /\ obj \in {PlainArray(d) : d \in TestArrays}
               \cup {PlainDataset([i \in 1..Len(ds) |-> PlainArray(ds[i])]) :
                        ds \in RenameDatasets}
    /\ FreshAccessor

NextRename ==
    \/ \E a \in OneName(obj.dims), inplace \in BOOLEAN : DaSetDims(a, inplace)
    \/ \E a \in XYNames(obj.dims), inplace \in BOOLEAN : DsSetDims(a, inplace)
    \/ DaRead("dims")
    \/ DsRead("dims")
    \/ RenameIsInjective /\ WriteDims
    \/ \E inplace \in BOOLEAN : DsWriteCrs([fmt |-> "crs", of |-> "E"], None, inplace)

SpecRename == InitRename /\ [][NextRename]_vars

(***************************************************************************)
(* Claims about the dimension resolver.                                    *)
(***************************************************************************)
Candidates == {"x", "y"} \cup Range(ZCandidates) \cup Range(TCandidates)

\* the accessors on which the resolver has run: the wrapper itself once its
\* dimension map is no longer "not yet determined", and the object a set_dims
\* call returned
Resolved == (IF geo.dim_map # False THEN {geo} ELSE {})
            \cup (IF ret.kind = "object" /\ call.op = "set_dims" THEN {ret.geo} ELSE {})

\* C1: a two-dimensional array whose dimension names are no role's candidates
\* and that got no explicit input has Y bound to its first axis and X to its
\* second: dims is <<"y", "x">>, sizes["y"] the first extent, sizes["x"] the second
C1_RowMajorFallback ==
    (/\ Len(obj.dims) = 2
     /\ Range(obj.dims) \cap Candidates = {}
     /\ explicit = NoArgs)
    => /\ \A g \in Resolved : g.y_dim = obj.dims[1] /\ g.x_dim = obj.dims[2]
       /\ (call.op = "dims" => ret.val = <<"y", "x">>)
       /\ (call.op = "sizes" =>
             /\ DictGet(ret.val, "y", 0) = Extent(1)
             /\ DictGet(ret.val, "x", 0) = Extent(2)
             /\ Len(ret.val) = 2)

C1_Witness ==
    /\ obj.dims = <<"a", "b">>
    /\ call.op = "sizes"
    /\ ret.kind = "value"
    /\ explicit = NoArgs

\* what name matching gives a role on these dimensions
ByName(r, dims) ==
    CASE r = "x" -> IF "x" \in Range(dims) THEN "x" ELSE None
      [] r = "y" -> IF "y" \in Range(dims) THEN "y" ELSE None
      [] r = "vertical" ->
            IF "z" \in Range(dims) THEN "z"
            ELSE IF "vertical" \in Range(dims) THEN "vertical"
            ELSE IF "pressure_level" \in Range(dims) THEN "pressure_level"
            ELSE None
      [] r = "time" ->
            IF "time" \in Range(dims) THEN "time"
            ELSE IF "t" \in Range(dims) THEN "t"
            ELSE None

\* the roles an accessor has bound to dimension d
RolesOf(g, d) == {r \in RoleSet : GetDim(g, r) = d}

\* C2: on an array with no explicit input, inference binds each role to its
\* first candidate name that is a dimension (X and Y are left to the two-axis
\* fallback when neither "x" nor "y" is one), and dims shows every bound
\* dimension under a role bound to it and every other dimension under its own name
C2_InferenceByName ==
    explicit = NoArgs =>
      /\ \A g \in Resolved :
            /\ \A r \in RoleSet : ByName(r, obj.dims) # None => GetDim(g, r) = ByName(r, obj.dims)
            /\ \A r \in {"vertical", "time"} : GetDim(g, r) = ByName(r, obj.dims)
      /\ (call.op = "dims" =>
            /\ Len(ret.val) = Len(obj.dims)
            /\ \A i \in 1..Len(obj.dims) :
                  IF RolesOf(geo, obj.dims[i]) = {} THEN ret.val[i] = obj.dims[i]
                  ELSE ret.val[i] \in RolesOf(geo, obj.dims[i]))

\* C3: a role that a set_dims call has bound to an explicitly named dimension
\* stays bound to it, on the wrapper and on every object a later call returns,
\* through set_dims calls without a name for that role and through the reads
C3_ExplicitSticky ==
    /\ \A r \in RoleSet : explicit[r] # None => GetDim(geo, r) = explicit[r]
    /\ ret.kind = "object" =>
          \A r \in RoleSet : ret.explicit[r] # None => GetDim(ret.geo, r) = ret.explicit[r]

C3_Witness ==
    /\ obj.dims = <<"y", "x">>
    /\ explicit.x = "y"
    /\ call.op = "set_dims" /\ call.given = "none" /\ call.raised = None
    /\ geo.x_dim = "y"
    /\ ret.kind = "object" /\ ret.geo.x_dim = "y"

\* the four bound roles of an accessor
BoundRoles(g) == [r \in RoleSet |-> GetDim(g, r)]
\* the dims view a read on an accessor gives
ViewOf(g, dims) == dims_view(dims, da_dim_map(g, dims).g.dim_dict)

\* C4: set_dims without explicit names is idempotent: a second such call, in
\* either mode, on the object the first one returned gives an object with the
\* same four bound roles and the same dims view
C4_InferenceIdempotent ==
    (call.op = "set_dims" /\ call.given = "none" /\ ret.kind = "object") =>
       \A inplace \in BOOLEAN :
          LET again == da_set_dims(ret.geo, obj.dims, NoArgs, inplace) IN
          /\ again.exc = None
          /\ BoundRoles(again.g) = BoundRoles(ret.geo)
          /\ ViewOf(again.g, obj.dims) = ViewOf(ret.geo, obj.dims)

C4_Witness ==
    /\ call.op = "set_dims" /\ call.given = "none" /\ ret.kind = "object"
    /\ ~ call.inplace
    /\ explicit.vertical = "a"
    /\ ret.geo.x_dim = "b"
    /\ ret.geo.vertical_dim = "a"

\* C5: a set_dims call on an array with an explicit name that is none of its
\* dimensions raises and returns nothing, and no role is ever bound to a name
\* that is not a dimension of the array
C5_InvalidNameFails ==
    /\ (call.op = "set_dims" /\ call.given = "invalid") =>
          (call.raised = "AssertionError" /\ ret = NoRet)
    /\ \A r \in RoleSet : GetDim(geo, r) \in Range(obj.dims) \cup {None}
    /\ ret.kind = "object" =>
          \A r \in RoleSet : GetDim(ret.geo, r) \in Range(obj.dims) \cup {None}

C5_Witness ==
    /\ call.op = "set_dims" /\ call.given = "invalid"
    /\ call.raised = "AssertionError"
    /\ geo.dim_map = "dict"

\* C6: a set_dims call on a Dataset with an explicit name that is a dimension of
\* none of its member arrays raises at that call
C6_DatasetInvalidNameFails ==
    (obj.kind = "Dataset" /\ call.op = "set_dims" /\ call.given = "invalid")
    => (call.raised # None /\ ret = NoRet)

(***************************************************************************)
(* Claims about the CRS resolver.                                          *)
(***************************************************************************)
\* the grid-mapping pointer of an array: the encoding's, else the attributes'
PointerOf(o) ==
    IF "grid_mapping" \in Keys(o.encoding) THEN DictGet(o.encoding, "grid_mapping", None)
    ELSE DictGet(o.attrs, "grid_mapping", None)

MissingPointer(o) == PointerOf(o) # None /\ PointerOf(o) \notin Keys(o.coords)
HasPointerCoord(o) == PointerOf(o) # None /\ PointerOf(o) \in Keys(o.coords)
\* the attributes of the coordinate the pointer names
PointerCoord(o) == DictGet(o.coords, PointerOf(o), <<>>)

\* the CRS the area descriptor exposes, None when there is no descriptor or it
\* exposes none
AreaCrs(o) ==
    IF "area" \in Keys(o.attrs) /\ DictGet(o.attrs, "area", NoCrsArea).has_crs
    THEN DictGet(o.attrs, "area", NoCrsArea).crs
    ELSE None

\* the CRS the grid-mapping coordinate carries: None when there is no such
\* coordinate or it carries none, "unreadable" when its WKT does not parse
GmCrs(o) ==
    IF ~ HasPointerCoord(o) THEN None
    ELSE IF "spatial_ref" \in Keys(PointerCoord(o))
         THEN IF DictGet(PointerCoord(o), "spatial_ref", BadWkt).of \in CrsIds
              THEN DictGet(PointerCoord(o), "spatial_ref", BadWkt).of ELSE "unreadable"
    ELSE IF "crs_wkt" \in Keys(PointerCoord(o))
         THEN IF DictGet(PointerCoord(o), "crs_wkt", BadWkt).of \in CrsIds
              THEN DictGet(PointerCoord(o), "crs_wkt", BadWkt).of ELSE "unreadable"
    ELSE IF DictGet(PointerCoord(o), "grid_mapping_name", BadCf).of \in CrsIds
         THEN DictGet(PointerCoord(o), "grid_mapping_name", BadCf).of
    ELSE None

NoDiscoverableCrs(o) == GmCrs(o) = None /\ AreaCrs(o) = None

\* C7: on an array with no discoverable CRS the cache is Unresolved or Absent,
\* a crs access returns None and leaves it Absent, and the wrapper runs every
\* discovery source at most once however many accesses follow
C7_AbsentIsCached ==
    NoDiscoverableCrs(obj) =>
       /\ geo.crs \in {None, False}
       /\ nsearch <= Len(crs_methods)
       /\ (geo.crs = None => nsearch = 0)
       /\ (call.op = "crs" =>
             /\ call.raised = None
             /\ ret = [kind |-> "value", val |-> None]
             /\ geo.crs = False)

\* a crs access answered from the Absent cache after the search has run
C7_Witness ==
    /\ NoDiscoverableCrs(obj)
    /\ call.op = "crs" /\ call.searched = 0
    /\ nsearch = Len(crs_methods)
    /\ geo.crs = False
    /\ ret = [kind |-> "value", val |-> None]

\* C8: on an array whose pointer names no coordinate, the wrapper has emitted
\* one warning once the CRS has been searched for and none before, whatever
\* the number of accesses; a crs access does not raise, has gone on to the
\* area descriptor and returns its CRS, None when there is none
C8_MissingGridMappingWarnsOnce ==
    MissingPointer(obj) =>
       /\ nwarn = (IF geo.crs = None THEN 0 ELSE 1)
       /\ (call.op = "crs" =>
             /\ call.raised = None
             /\ ret = [kind |-> "value", val |-> AreaCrs(obj)]
             /\ nsearch = Len(crs_methods))

\* a later crs access on the wrapper: nothing searched, still one warning
C8_Witness ==
    /\ MissingPointer(obj)
    /\ AreaCrs(obj) = None
    /\ call.op = "crs" /\ call.searched = 0
    /\ nwarn = 1
    /\ ret = [kind |-> "value", val |-> None]

\* C9: on an array whose area descriptor exposes a CRS, crs returns the CRS
\* of the grid-mapping coordinate when that carries one, and the descriptor's
\* when the grid mapping yields none
C9_GridMappingFirst ==
    (call.op = "crs" /\ AreaCrs(obj) # None) =>
       /\ (GmCrs(obj) \in CrsIds =>
             call.raised = None /\ ret = [kind |-> "value", val |-> GmCrs(obj)])
       /\ (GmCrs(obj) = None =>
             call.raised = None /\ ret = [kind |-> "value", val |-> AreaCrs(obj)])

C9_Witness ==
    /\ call.op = "crs" /\ call.searched = 1
    /\ AreaCrs(obj) = "D"
    /\ GmCrs(obj) = "B"
    /\ ret = [kind |-> "value", val |-> "B"]

\* C10: when the pointer names a coordinate, crs returns the CRS of its
\* spatial_ref when it has one that parses, else of its crs_wkt when it has
\* one that parses, else of its CF parameters; when it has no WKT and the
\* parameters are missing or malformed the access does not raise and returns
\* what the next source gives
C10_GridMappingAttrOrder ==
    (call.op = "crs" /\ HasPointerCoord(obj)) =>
       IF "spatial_ref" \in Keys(PointerCoord(obj))
       THEN from_wkt(DictGet(PointerCoord(obj), "spatial_ref", BadWkt)).exc = None =>
               /\ call.raised = None
               /\ ret.val = DictGet(PointerCoord(obj), "spatial_ref", BadWkt).of
       ELSE IF "crs_wkt" \in Keys(PointerCoord(obj))
       THEN from_wkt(DictGet(PointerCoord(obj), "crs_wkt", BadWkt)).exc = None =>
               /\ call.raised = None
               /\ ret.val = DictGet(PointerCoord(obj), "crs_wkt", BadWkt).of
       ELSE /\ call.raised = None
            /\ ret.val = IF from_cf(PointerCoord(obj)).exc = None
                         THEN from_cf(PointerCoord(obj)).val
                         ELSE AreaCrs(obj)

\* malformed CF parameters and no WKT: the search went on to the area descriptor
C10_Witness ==
    /\ call.op = "crs" /\ call.searched = 2
    /\ HasPointerCoord(obj)
    /\ PointerCoord(obj) = << <<"grid_mapping_name", BadCf>> >>
    /\ call.raised = None
    /\ ret = [kind |-> "value", val |-> "D"]

(***************************************************************************)
(* Claims about the grid-mapping locator and the CRS of a Dataset.         *)
(***************************************************************************)
\* C11: grid_mapping of an array is the pointer in its encoding when there is
\* one, else the pointer in its attributes, else "spatial_ref"
C11_ArrayGridMappingDefault ==
    (obj.kind = "DataArray" /\ call.op = "grid_mapping") =>
        /\ call.raised = None
        /\ ret = [kind |-> "value",
                  val |-> IF PointerOf(obj) # None THEN PointerOf(obj) ELSE "spatial_ref"]

\* the distinct grid mapping variables the member arrays of a Dataset name
MemberPointers(o) == {PointerOf(o.data_vars[i]) : i \in 1..Len(o.data_vars)} \ {None}

\* C12: grid_mapping of a Dataset whose member arrays name one grid mapping
\* variable is that name, and it raises when they name more than one, with or
\* without a pointer of the Dataset's own
C12_DatasetGridMappingConflict ==
    (obj.kind = "Dataset" /\ call.op = "grid_mapping") =>
        /\ Cardinality(MemberPointers(obj)) > 1 => call.raised = "RuntimeError"
        /\ Cardinality(MemberPointers(obj)) = 1 =>
              /\ call.raised = None
              /\ ret.val \in MemberPointers(obj)

\* the CRS a coordinate variable of the object describes
CoordCrs(o, name) == DictGet(DictGet(o.coords, name, <<>>), "grid_mapping_name", BadCf).of

\* C13: crs of a Dataset whose member arrays name more than one grid mapping
\* variable raises; when they name one, a coordinate of the Dataset, it is the
\* CRS that variable describes
C13_DatasetCrs ==
    (obj.kind = "Dataset" /\ call.op = "crs") =>
        /\ Cardinality(MemberPointers(obj)) > 1 => call.raised = "RuntimeError"
        /\ \A name \in MemberPointers(obj) :
              (MemberPointers(obj) = {name} /\ name \in Keys(obj.coords)) =>
                 /\ call.raised = None
                 /\ ret.val = CoordCrs(obj, name)

\* C14: crs of a Dataset with no grid-mapping pointer, of its own or of a
\* member array, and no area descriptor raises
C14_DatasetNoCrsFails ==
    (/\ obj.kind = "Dataset" /\ call.op = "crs"
     /\ PointerOf(obj) = None /\ MemberPointers(obj) = {}
     /\ AreaCrs(obj) = None)
    => call.raised # None

(***************************************************************************)
(* Claims about write_crs and write_dims.                                  *)
(***************************************************************************)
\* the last call was a write_crs that returned an object
Wrote == call.op = "write_crs" /\ call.raised = None /\ ret.kind = "object"

\* the CRS a successful write_crs wrote: the one given, else the one the
\* accessor resolved
WrittenCrs ==
    IF call.info = NoInput THEN geo.crs ELSE from_user_input(call.info).val

\* C15: the object a successful write_crs returns has no "grid_mapping" in its
\* attributes, and the "grid_mapping" of its encoding names a coordinate
\* variable that holds the written CRS: the one of the caller's name when one
\* was given
C15_PointerMigration ==
    Wrote =>
       /\ "grid_mapping" \notin Keys(ret.obj.attrs)
       /\ "grid_mapping" \in Keys(ret.obj.encoding)
       /\ PointerOf(ret.obj) \in Keys(ret.obj.coords)
       /\ PointerCoord(ret.obj) = gm_attrs(WrittenCrs)
       /\ (call.name # None => PointerOf(ret.obj) = call.name)

\* a Dataset whose pointer was in its attributes, written under that name
C15_Witness ==
    /\ Wrote /\ ~ call.inplace
    /\ obj.kind = "Dataset"
    /\ DictGet(obj.attrs, "grid_mapping", None) = "gm1"
    /\ ret.obj.attrs = <<>>
    /\ ret.obj.encoding = << <<"grid_mapping", "gm1">> >>

\* C16: after write_crs(c) has returned an object, the crs of that object
\* is c, a fresh accessor on it resolves c as well, and the crs_wkt and
\* spatial_ref attributes of the written variable are c's WKT
C16_CrsRoundTrip ==
    (Wrote /\ call.info # NoInput) =>
       /\ crs_get(ret.geo, ret.obj).exc = None
       /\ crs_get(ret.geo, ret.obj).val = from_user_input(call.info).val
       /\ crs_get(NewGeo, ret.obj).exc = None
       /\ crs_get(NewGeo, ret.obj).val = from_user_input(call.info).val
       /\ DictGet(PointerCoord(ret.obj), "crs_wkt", BadWkt)
             = to_wkt(from_user_input(call.info).val)
       /\ DictGet(PointerCoord(ret.obj), "spatial_ref", BadWkt)
             = to_wkt(from_user_input(call.info).val)

\* a copy written from a source whose cache was Absent
C16_Witness ==
    /\ Wrote /\ ~ call.inplace
    /\ call.info # NoInput
    /\ geo.crs = False
    /\ ret.geo.crs = "E"

\* the grid mapping name an object knows: its own pointer, else for a Dataset
\* the one its member arrays name
KnownName(o) ==
    IF PointerOf(o) # None THEN PointerOf(o)
    ELSE IF o.kind = "Dataset" /\ Cardinality(MemberPointers(o)) = 1
         THEN CHOOSE name \in MemberPointers(o) : TRUE
    ELSE None

\* the name write_crs is to write under, on object o with the caller's `name`
NameToWrite(o, name) ==
    IF name # None THEN name
    ELSE IF KnownName(o) # None THEN KnownName(o)
    ELSE "spatial_ref"

C18_WriteNothingWithoutCrs ==
    [][(/\ call'.op = "write_crs" /\ call'.info = NoInput
        /\ crs_get(geo, obj).exc = None /\ crs_get(geo, obj).val = None) =>
          /\ call'.raised = "RuntimeError"
          /\ ret' = NoRet
          /\ obj' = obj]_vars

C18_Witness ==
    /\ call.op = "write_crs" /\ call.info = NoInput /\ call.inplace
    /\ call.raised = "RuntimeError"
    /\ geo.crs = False
    /\ obj.kind = "Dataset"
    /\ call.searched = Len(crs_methods)

\* the dims and crs views of an object under an accessor
Views(g, o) ==
    [dims |-> dims_view(o.dims, dim_map_of(g, o).g.dim_dict),
     crs |-> [val |-> crs_get(g, o).val, exc |-> crs_get(g, o).exc]]

\* C19: write_dims and write_crs(inplace=False) leave the object the call was
\* made on as it was, and its dims and crs views as they were
C19_CopyIsolation ==
    [][(call'.op = "write_dims" \/ (call'.op = "write_crs" /\ ~ call'.inplace)) =>
          /\ obj' = obj
          /\ Views(geo', obj') = Views(geo, obj)]_vars

\* a copy with another pointer, another coordinate and another CRS than the
\* array it was made from
C19_Witness ==
    /\ Wrote /\ ~ call.inplace
    /\ obj.kind = "DataArray"
    /\ geo.crs = "C"
    /\ ret.geo.crs = "E"
    /\ PointerOf(ret.obj) = "my_gm"
    /\ PointerOf(obj) = "a_grid_map_var"

\* C20: the object write_dims or write_crs(inplace=False) returns answers crs
\* without a search when the accessor the call was made on had the CRS cached,
\* Present or Absent, when the call was made
C20_CachePropagation ==
    (/\ call.op \in {"write_dims", "write_crs"} /\ ~ call.inplace
     /\ ret.kind = "object"
     /\ call.searched = 0 /\ geo.crs # None)
    => crs_get(ret.geo, ret.obj).searched = 0

(***************************************************************************)
(* Claims about Datasets and their member arrays.                          *)
(***************************************************************************)
\* the roles the accessor of a member array resolves on its own
MemberRoles(m) == BoundRoles(da_dim_map(NewGeo, m.dims).g)

\* C21: a successful write_crs on a Dataset gives every member array that has
\* the x, y or vertical role bound among its resolved dimensions the pointer to
\* the written variable in its encoding and none in its attributes, and leaves
\* the attributes and encoding of every other member array as they were
C21_SpatialMembersAssigned ==
    [][(call'.op = "write_crs" /\ call'.raised = None /\ obj.kind = "Dataset") =>
          \A i \in 1..Len(obj.data_vars) :
             IF \E r \in {"x", "y", "vertical"} : MemberRoles(obj.data_vars[i])[r] # None
             THEN /\ DictGet(ret'.obj.data_vars[i].encoding, "grid_mapping", None)
                        = NameToWrite(obj, call'.name)
                  /\ "grid_mapping" \notin Keys(ret'.obj.data_vars[i].attrs)
             ELSE /\ ret'.obj.data_vars[i].attrs = obj.data_vars[i].attrs
                  /\ ret'.obj.data_vars[i].encoding = obj.data_vars[i].encoding]_vars

\* the dims view of an object under an accessor
DimsView(g, o) == dims_view(o.dims, dim_map_of(g, o).g.dim_dict)

\* the names a set_dims call gave for x and y are dimensions that are no
\* candidate of the vertical or time role, differ from each other, and were
\* bound to no role on the accessor g
NewXY(g, a) ==
    /\ a.x # a.y
    /\ \A r \in {"x", "y"} :
          a[r] # None =>
             /\ a[r] \notin Range(ZCandidates) \cup Range(TCandidates)
             /\ RolesOf(g, a[r]) = {}

C23_WriteDimsMaterialises ==
    (call.op = "write_dims" /\ ret.kind = "object") =>
       /\ ret.obj.dims = DimsView(geo, obj)
       /\ \A i \in 1..Len(obj.dims) :
             obj.dims[i] \in Keys(geo.dim_dict) =>
                DimsView(ret.geo, ret.obj)[i] = DictGet(geo.dim_dict, obj.dims[i], None)
       /\ \A i \in 1..Len(obj.data_vars) :
             /\ ret.obj.data_vars[i].dims = dims_view(obj.data_vars[i].dims, geo.dim_dict)
             /\ \A j \in 1..Len(obj.data_vars[i].dims) :
                   obj.data_vars[i].dims[j] \in Keys(geo.dim_dict) =>
                      member_view(ret.obj.data_vars[i])[j]
                         = DictGet(geo.dim_dict, obj.data_vars[i].dims[j], None)

\* the Dataset of the accessor's test: roles given for "a" and "b", and the
\* member array has them as "x" and "y" after write_dims
C23_Witness ==
    /\ call.op = "write_dims" /\ ret.kind = "object"
    /\ obj.kind = "Dataset"
    /\ obj.dims = <<"a", "b", "z">>
    /\ geo.x_dim = "a" /\ geo.y_dim = "b"
    /\ ret.obj.dims = <<"x", "y", "z">>
    /\ ret.obj.data_vars[1].dims = <<"x", "y">>
    /\ member_view(ret.obj.data_vars[1]) = <<"x", "y">>

\* the role map a set_dims call with names `a` gets from member array m; empty
\* when m has none of the names and is skipped
VarDimMap(m, a) ==
    IF member_dims(a, m.dims) = NoArgs THEN <<>>
    ELSE member_dim_map(m.dims, member_dims(a, m.dims))

\* two member arrays resolve different dimensions to the same role
RoleConflict(o, a) ==
    \E i, j \in 1..Len(o.data_vars) :
       \E k \in Keys(VarDimMap(o.data_vars[i], a)), l \in Keys(VarDimMap(o.data_vars[j], a)) :
          /\ k # l
          /\ DictGet(VarDimMap(o.data_vars[i], a), k, None)
                = DictGet(VarDimMap(o.data_vars[j], a), l, None)

\* C24: a set_dims call on a Dataset in which two member arrays resolve
\* different dimensions to the same role raises and returns nothing
C24_ConflictRaises ==
    (obj.kind = "Dataset" /\ call.op = "set_dims" /\ RoleConflict(obj, call.args))
    => (call.raised # None /\ ret = NoRet)

(***************************************************************************)
(* Claims about set_dims on an array: the two modes, reads before the      *)
(* call, collisions of names, failing calls.                               *)
(***************************************************************************)
\* C25: in every resolver state of an array and for all explicit names,
\* set_dims(inplace=False) fails when set_dims(inplace=True) fails, and else
\* leaves on the copy it returns the four role bindings that
\* set_dims(inplace=True) leaves on the array
C25_InplaceEquivalence ==
    obj.kind = "DataArray" =>
       \A a \in ArgSets(obj.dims) :
          /\ da_set_dims(geo, obj.dims, a, FALSE).exc = da_set_dims(geo, obj.dims, a, TRUE).exc
          /\ da_set_dims(geo, obj.dims, a, TRUE).exc = None =>
                BoundRoles(da_set_dims(geo, obj.dims, a, FALSE).g)
                   = BoundRoles(da_set_dims(geo, obj.dims, a, TRUE).g)

\* the accessor of an array after dims, sizes or dim_map was read
AfterRead(g, dims) == da_dim_map(g, dims).g

\* C26: for every array, resolver state and set_dims call with explicit names
\* that are dimensions, the dims view after the call is the same whether or
\* not dims, sizes or dim_map was read before the call, and it shows each named
\* dimension under the role it was given
C26_ReadsDoNotInterfere ==
    obj.kind = "DataArray" =>
       \A a \in {b \in ArgSets(obj.dims) : Given(obj.dims, b) = "valid"} :
          /\ ViewOf(da_set_dims(AfterRead(geo, obj.dims), obj.dims, a, TRUE).g, obj.dims)
                = ViewOf(da_set_dims(geo, obj.dims, a, TRUE).g, obj.dims)
          /\ \A r \in RoleSet : \A i \in 1..Len(obj.dims) :
                obj.dims[i] = a[r] =>
                   ViewOf(da_set_dims(geo, obj.dims, a, TRUE).g, obj.dims)[i] = r

\* C27: on an array, under the accessor of the array and under that of an
\* object a call returned, the dims view names no two dimensions alike and
\* sizes has one entry for each dimension
C27_NoNameCollision ==
    obj.kind = "DataArray" =>
       \A g \in {geo} \cup (IF ret.kind = "object" THEN {ret.geo} ELSE {}) :
          /\ NoRepeats(ViewOf(g, obj.dims))
          /\ Len(sizes_view(obj.dims, da_dim_map(g, obj.dims).g.dim_dict)) = Len(obj.dims)

\* C28: a set_dims call on an array that raises leaves the four bound roles of
\* the array's accessor as they were, and a cached role map that agrees with them
C28_FailedSetDimsAtomic ==
    [][(obj.kind = "DataArray" /\ call'.op = "set_dims" /\ call'.raised # None) =>
          /\ BoundRoles(geo') = BoundRoles(geo)
          /\ geo'.dim_map = "dict" => geo'.dim_dict = build_dim_dict(geo')]_vars

(***************************************************************************)
(* Claims about failing and collection-level write_crs.                    *)
(***************************************************************************)
\* what a crs access gives: the value or the exception
CrsView(g, o) == [val |-> crs_get(g, o).val, exc |-> crs_get(g, o).exc]

\* C29: a write_crs(c, inplace=True) that raises after c was parsed leaves the
\* object's crs as it was: a crs access gives what it gave before the call,
\* and not c
C29_FailedWriteKeepsCrs ==
    [][(/\ call'.op = "write_crs" /\ call'.inplace /\ call'.raised # None
        /\ call'.info # NoInput /\ from_user_input(call'.info).exc = None) =>
          /\ CrsView(geo', obj') = CrsView(geo, obj)
          /\ CrsView(geo', obj').val # from_user_input(call'.info).val]_vars

\* C30: a successful write_crs on a Dataset, made right after
\* set_dims(x=, y=, inplace=True) on it, gives every member array that has the
\* dimension named for x or the one named for y the pointer to the written
\* variable in its encoding
C30_CollectionRolesHonoured ==
    [][(/\ obj.kind = "Dataset"
        /\ call.op = "set_dims" /\ call.inplace
        /\ call'.op = "write_crs" /\ call'.raised = None) =>
          \A i \in 1..Len(obj.data_vars) :
             Range(obj.data_vars[i].dims) \cap {call.args.x, call.args.y} # {} =>
                DictGet(ret'.obj.data_vars[i].encoding, "grid_mapping", None)
                   = NameToWrite(obj, call'.name)]_vars

====
